---- MODULE Spec2Model ----
(***************************************************************************)
(* State-machine model of spotify-clean.py: the four playlist-cleaning     *)
(* flows (artist, track name, duplicates, year cutoff), their scans over   *)
(* the paginated playlist and their removal requests to the remote API.    *)
(*                                                                         *)
(* Text is modelled as a sequence of character codes (ASCII), so that      *)
(* lower(), strip(), join() and int() are computed, not assumed.           *)
(***************************************************************************)
EXTENDS Integers, Sequences, FiniteSets, TLC

VARIABLES pc, flow, remote, artist_name, track_name, year_cutoff,
          items, duplicates, gi, escolha, choices, matches, to_remove,
          confirm, ck, fi, removed_count, lastReq, lastResp, nreq, slept, faults,
          opcao, playlist_escolhida, input_line, chunk_lst, chunk_n, chunk_out

vars == <<pc, flow, remote, artist_name, track_name, year_cutoff,
          items, duplicates, gi, escolha, choices, matches, to_remove,
          confirm, ck, fi, removed_count, lastReq, lastResp, nreq, slept, faults,
          opcao, playlist_escolhida, input_line, chunk_lst, chunk_n, chunk_out>>

(***************************************************************************)
(* Bounds of the model.                                                    *)
(***************************************************************************)
\* longest playlist of the flow specification (besides the long playlist)
MaxSlots == 4
\* longest playlist of the scan specifications
MaxScanSlots == 4
\* most pages the remote splits a playlist into
MaxPages == 4
\* most failing (non-OK) responses the remote gives in one flow
MaxFaults == 2
\* longest playlist of the menu specification
MaxMenuSlots == 2
\* longest playlist of the specification of the artist and track-name scans
MaxNameSlots == 3
\* longest list and largest chunk size given to _chunked_list on its own
MaxListLen == 5
MaxChunkSize == 3
\* slots of the long playlist beyond one full by-identity batch
LongExtra == 1

(***************************************************************************)
(* Program constants.                                                      *)
(***************************************************************************)
\* BATCH_SIZE of remove_duplicates_from_playlist
BATCH_SIZE_POSITIONS == 50
\* BATCH_SIZE of remove_tracks_before_year_from_playlist
BATCH_SIZE_URIS == 100
\* http_status == 429
RATE_LIMIT_STATUS == 429
\* the default '5' of headers.get('Retry-After', '5')
DEFAULT_RETRY_AFTER == <<53>>

(***************************************************************************)
(* Strings as sequences of character codes.                                *)
(***************************************************************************)
Min(a, b) == IF a < b THEN a ELSE b

IsSpace(c) == c = 32 \/ (c >= 9 /\ c <= 13)

IsDigit(c) == c >= 48 /\ c <= 57

\* str.lower()
Lower(s) == [i \in 1..Len(s) |-> IF s[i] >= 65 /\ s[i] <= 90 THEN s[i] + 32 ELSE s[i]]

RECURSIVE LStrip(_)
LStrip(s) == IF s # <<>> /\ IsSpace(s[1]) THEN LStrip(Tail(s)) ELSE s

RECURSIVE RStrip(_)
RStrip(s) == IF s # <<>> /\ IsSpace(s[Len(s)]) THEN RStrip(SubSeq(s, 1, Len(s) - 1)) ELSE s

\* str.strip()
Strip(s) == RStrip(LStrip(s))

\* sep.join(parts)
RECURSIVE Join(_, _)
Join(sep, parts) ==
    IF parts = <<>> THEN <<>>
    ELSE IF Len(parts) = 1 THEN parts[1]
    ELSE parts[1] \o sep \o Join(sep, Tail(parts))

\* s[:n]
Prefix(s, n) == SubSeq(s, 1, Min(n, Len(s)))

\* str.isdigit()
IsDigitStr(s) == s # <<>> /\ \A i \in 1..Len(s) : IsDigit(s[i])

RECURSIVE DigitsValue(_, _)
DigitsValue(s, acc) ==
    IF s = <<>> THEN acc
    ELSE IF s[1] = 95 THEN DigitsValue(Tail(s), acc)
    ELSE DigitsValue(Tail(s), 10 * acc + (s[1] - 48))

\* int(s): surrounding whitespace is dropped, one sign is accepted, and the
\* digits may be separated by single underscores; anything else raises
\* ValueError (ok = FALSE).
PyInt(s) ==
    LET t    == Strip(s)
        sgn  == t # <<>> /\ t[1] \in {43, 45}
        body == IF sgn THEN Tail(t) ELSE t
        good == /\ body # <<>>
                /\ IsDigit(body[1])
                /\ IsDigit(body[Len(body)])
                /\ \A i \in 1..Len(body) : IsDigit(body[i]) \/ body[i] = 95
                /\ \A i \in 1..(Len(body) - 1) : ~(body[i] = 95 /\ body[i + 1] = 95)
        mag  == DigitsValue(body, 0)
    IN  IF good
        THEN [ok |-> TRUE, val |-> IF sgn /\ t[1] = 45 THEN 0 - mag ELSE mag]
        ELSE [ok |-> FALSE, val |-> 0]

\* the decimal text a user types for the number n >= 0
RECURSIVE Dec(_)
Dec(n) == IF n < 10 THEN <<48 + n>> ELSE Dec(n \div 10) \o <<48 + (n % 10)>>

(***************************************************************************)
(* The remote playlist: a sequence of slots [added_at, track]; the track   *)
(* of a slot is null or a record [uri, name, artists, album].              *)
(***************************************************************************)
NullTrack == [null |-> TRUE]

Track(u, n, as, al) == [uri |-> u, name |-> n, artists |-> as, album |-> al]

Album(d) == [release_date |-> d]

NoAlbumDate == <<>>

HasDate(al) == "release_date" \in DOMAIN al

\* "So" by A, 2008-03-01
K1 == Track(1, <<83, 111>>, << <<65>> >>, Album(<<50, 48, 48, 56, 45, 48, 51, 45, 48, 49>>))
\* "so" by a, 2010
K2 == Track(2, <<115, 111>>, << <<97>> >>, Album(<<50, 48, 49, 48>>))
\* "So" by B, no release date
K3 == Track(3, <<83, 111>>, << <<66>> >>, NoAlbumDate)
\* "So " by " A", release date "abcd"
K4 == Track(4, <<83, 111, 32>>, << <<32, 65>> >>, Album(<<97, 98, 99, 100>>))
\* "S" by A and B, release date "199"
K5 == Track(5, <<83>>, << <<65>>, <<66>> >>, Album(<<49, 57, 57>>))
\* "s" by B and A, 2011-05
K6 == Track(6, <<115>>, << <<66>>, <<65>> >>, Album(<<50, 48, 49, 49, 45, 48, 53>>))
\* "So" by A, empty release date
K7 == Track(7, <<83, 111>>, << <<65>> >>, Album(<<>>))
\* "T" by B, 1999
K8 == Track(8, <<84>>, << <<66>> >>, Album(<<49, 57, 57, 57>>))

FlowCatalog == {K1, K2, K8, NullTrack}

ScanCatalog == {K1, K2, K3, K4, K5, K6, NullTrack}

DateCatalog == {K1, K2, K3, K4, K5, K7, NullTrack}

Slots(tracks) == [i \in 1..Len(tracks) |-> [added_at |-> i, track |-> tracks[i]]]

SeqsUpTo(S, n) == UNION {[1..k -> S] : k \in 0..n}

Playlists(catalog, n) == {Slots(t) : t \in SeqsUpTo(catalog, n)}

\* a playlist of more than BATCH_SIZE_URIS distinct tracks, all "So" by A, 2008
LongPlaylist ==
    Slots([i \in 1..(BATCH_SIZE_URIS + LongExtra) |->
              Track(100 + i, <<83, 111>>, << <<65>> >>, Album(<<50, 48, 48, 56>>))])

IsTrackSlot(slot) == slot.track # NullTrack

\* the page sizes under which the playlist comes in at most MaxPages pages
PageSizes(pl) ==
    {ps \in 1..(Len(pl) + 1) : (Len(pl) + ps - 1) \div ps <= MaxPages}

\* playlist_items / sp.next: the pages of a playlist for a page size
Pages(pl, ps) ==
    IF pl = <<>> THEN << <<>> >>
    ELSE [k \in 1..((Len(pl) + ps - 1) \div ps) |->
              SubSeq(pl, (k - 1) * ps + 1, Min(k * ps, Len(pl)))]

(***************************************************************************)
(* remove_artist_from_playlist: the scan.                                  *)
(***************************************************************************)
\* any(artist['name'].lower() == artist_name.lower() for artist in track['artists'])
ArtistMatch(track, name) ==
    \E i \in 1..Len(track.artists) : Lower(track.artists[i]) = Lower(name)

\* the for loop over one page: the uris of its matching tracks are appended
ArtistPage(page, name, acc) ==
    LET hit(slot) == slot.track # NullTrack /\ ArtistMatch(slot.track, name)
        found == SelectSeq(page, hit)
    IN  acc \o [i \in 1..Len(found) |-> found[i].track.uri]

RECURSIVE ArtistPages(_, _, _, _)
ArtistPages(pages, k, name, acc) ==
    LET acc2 == ArtistPage(pages[k], name, acc)
    IN  IF k < Len(pages) THEN ArtistPages(pages, k + 1, name, acc2) ELSE acc2

ScanArtist(pages, name) == ArtistPages(pages, 1, name, <<>>)

(***************************************************************************)
(* remove_music_from_playlist: the scan.                                   *)
(***************************************************************************)
\* (variant) a name that only has to start with the given name
NameMatch_StartsWith(track, name) ==
    Prefix(Lower(track.name), Len(name)) = Lower(name)

\* track['name'].lower() == track_name.lower()
NameMatch(track, name) == Lower(track.name) = Lower(name)

\* the for loop over one page
MusicPage(page, name, acc) ==
    LET hit(slot) == slot.track # NullTrack /\ NameMatch(slot.track, name)
        found == SelectSeq(page, hit)
    IN  acc \o [i \in 1..Len(found) |-> found[i].track.uri]

RECURSIVE MusicPages(_, _, _, _)
MusicPages(pages, k, name, acc) ==
    LET acc2 == MusicPage(pages[k], name, acc)
    IN  IF k < Len(pages) THEN MusicPages(pages, k + 1, name, acc2) ELSE acc2

ScanMusic(pages, name) == MusicPages(pages, 1, name, <<>>)

\* list(dict.fromkeys(lst)): the first occurrence of each element, in order
DictFromKeys(lst) ==
    LET first(i) == \A j \in 1..(i - 1) : lst[j] # lst[i]
        kept == SelectSeq([i \in 1..Len(lst) |-> i], first)
    IN  [k \in 1..Len(kept) |-> lst[kept[k]]]

(***************************************************************************)
(* _chunked_list                                                           *)
(***************************************************************************)
\* (variant) only the chunks of n elements, the shorter last one left out
_chunked_list_FullOnly(lst, n) ==
    [k \in 1..(Len(lst) \div n) |-> SubSeq(lst, (k - 1) * n + 1, k * n)]

\* lst[i:i+n] for i in range(0, len(lst), n)
_chunked_list(lst, n) ==
    [k \in 1..((Len(lst) + n - 1) \div n) |->
        SubSeq(lst, (k - 1) * n + 1, Min(k * n, Len(lst)))]

(***************************************************************************)
(* remove_duplicates_from_playlist: the scan and the grouping.             *)
(***************************************************************************)
StripAll(names) == [i \in 1..Len(names) |-> Strip(names[i])]

\* one entry of items, for a non-null track met when the counter is position
DupItem(slot, position) ==
    LET artist_list == StripAll(slot.track.artists)
    IN  [position   |-> position,
         added_at   |-> slot.added_at,
         name       |-> slot.track.name,
         artists    |-> Join(<<44, 32>>, artist_list),
         artist_key |-> Lower(Join(<<44>>, artist_list)),
         uri        |-> slot.track.uri]

\* the raw index in the page of its j-th slot with a track
RawIndex(page, j) ==
    CHOOSE i \in 1..Len(page) :
       /\ page[i].track # NullTrack
       /\ Cardinality({h \in 1..i : page[h].track # NullTrack}) = j

\* DupPage with position += 1 moved out of the if track: branch
DupPage_CountNull(page, st) ==
    LET live == SelectSeq(page, IsTrackSlot)
    IN  [position |-> st.position + Len(page),
         items    |-> st.items \o
                        [j \in 1..Len(live) |->
                            DupItem(live[j], st.position + RawIndex(page, j) - 1)]]

\* the for loop over one page: every slot with a track becomes an entry and
\* takes the next position
DupPage(page, st) ==
    LET live == SelectSeq(page, IsTrackSlot)
    IN  [position |-> st.position + Len(live),
         items    |-> st.items \o
                        [j \in 1..Len(live) |-> DupItem(live[j], st.position + j - 1)]]

RECURSIVE DupPages(_, _, _)
DupPages(pages, k, st) ==
    LET st2 == DupPage(pages[k], st)
    IN  IF k < Len(pages) THEN DupPages(pages, k + 1, st2) ELSE st2

ScanDuplicates(pages) == DupPages(pages, 1, [position |-> 0, items |-> <<>>]).items

\* GroupKey without the artists
GroupKey_NameOnly(it) == Lower(Strip(it.name))

\* f"{it['name'].strip().lower()}||{it['artist_key']}"
GroupKey(it) == Lower(Strip(it.name)) \o <<124, 124>> \o it.artist_key

\* groups.setdefault(key, []).append(it): the keys in order of first
\* appearance, each with the entries of that key in order
GroupItems(its) ==
    LET keys == DictFromKeys([i \in 1..Len(its) |-> GroupKey(its[i])])
    IN  [g \in 1..Len(keys) |->
            LET mine(it) == GroupKey(it) = keys[g]
            IN  [key |-> keys[g], occurrences |-> SelectSeq(its, mine)]]

IsDuplicateGroup(g) == Len(g.occurrences) > 1

\* {k: v for k, v in groups.items() if len(v) > 1}
Duplicates(its) == SelectSeq(GroupItems(its), IsDuplicateGroup)

(***************************************************************************)
(* remove_tracks_before_year_from_playlist: the scan.                      *)
(***************************************************************************)
\* YearMatch with release_year <= year_cutoff
YearMatch_Inclusive(track, cutoff) ==
    /\ track # NullTrack
    /\ HasDate(track.album)
    /\ track.album.release_date # <<>>
    /\ PyInt(Prefix(track.album.release_date, 4)).ok
    /\ PyInt(Prefix(track.album.release_date, 4)).val <= cutoff

\* the test that appends an entry to matches
YearMatch(track, cutoff) ==
    /\ track # NullTrack
    /\ HasDate(track.album)
    /\ track.album.release_date # <<>>
    /\ PyInt(Prefix(track.album.release_date, 4)).ok
    /\ PyInt(Prefix(track.album.release_date, 4)).val < cutoff

YearEntry(track) ==
    [uri          |-> track.uri,
     name         |-> track.name,
     artists      |-> Join(<<44, 32>>, track.artists),
     release_date |-> track.album.release_date]

\* the for loop over one page
YearPage(page, cutoff, acc) ==
    LET hit(slot) == YearMatch(slot.track, cutoff)
        found == SelectSeq(page, hit)
    IN  acc \o [i \in 1..Len(found) |-> YearEntry(found[i].track)]

RECURSIVE YearPages(_, _, _, _)
YearPages(pages, k, cutoff, acc) ==
    LET acc2 == YearPage(pages[k], cutoff, acc)
    IN  IF k < Len(pages) THEN YearPages(pages, k + 1, cutoff, acc2) ELSE acc2

ScanYear(pages, cutoff) == YearPages(pages, 1, cutoff, <<>>)

Uris(ms) == [i \in 1..Len(ms) |-> ms[i].uri]

\* list(unique_by_uri.keys())
UniqueUris(ms) == DictFromKeys(Uris(ms))

(***************************************************************************)
(* The remote API: responses to a removal request and their effect on the  *)
(* playlist.                                                               *)
(***************************************************************************)
NoHeaders == <<>>

RetryAfter(text) == [Retry_After |-> text]

OkResponse == [kind |-> "ok", http_status |-> 200, headers |-> NoHeaders]

SpotifyException(status, headers) ==
    [kind |-> "SpotifyException", http_status |-> status, headers |-> headers]

OtherException == [kind |-> "Exception", http_status |-> 0, headers |-> NoHeaders]

NoResponse == [kind |-> "none", http_status |-> 0, headers |-> NoHeaders]

\* 429 without Retry-After, with "7", with "x"; a 400; a connection error
Failures ==
    {SpotifyException(RATE_LIMIT_STATUS, NoHeaders),
     SpotifyException(RATE_LIMIT_STATUS, RetryAfter(<<55>>)),
     SpotifyException(RATE_LIMIT_STATUS, RetryAfter(<<120>>)),
     SpotifyException(400, NoHeaders),
     OtherException}

Responses == {OkResponse} \cup Failures

\* the remote fails at most MaxFaults times in one flow
CanRespond(r) == r = OkResponse \/ faults < MaxFaults

IsRateLimit(r) == r.kind = "SpotifyException" /\ r.http_status = RATE_LIMIT_STATUS

\* headers.get('Retry-After', '5')
RetryAfterText(r) ==
    IF "Retry_After" \in DOMAIN r.headers THEN r.headers.Retry_After ELSE DEFAULT_RETRY_AFTER

\* the remote's effect of playlist_remove_all_occurrences_of_items
RemoveAllOccurrences(pl, uris) ==
    LET keep(slot) == slot.track = NullTrack
                      \/ ~(\E i \in 1..Len(uris) : uris[i] = slot.track.uri)
    IN  SelectSeq(pl, keep)

\* the remote's effect of playlist_remove_specific_occurrences_of_items: the
\* positions number the track slots of the playlist as it is when the request
\* arrives
RemoveSpecificOccurrences(pl, cands) ==
    LET live == SelectSeq(pl, IsTrackSlot)
        hit(slot) == \E c \in 1..Len(cands) : \E q \in 1..Len(cands[c].positions) :
                        /\ cands[c].positions[q] + 1 <= Len(live)
                        /\ live[cands[c].positions[q] + 1] = slot
        keep(slot) == ~hit(slot)
    IN  SelectSeq(pl, keep)

NoRequest == [mode |-> "none", bulk |-> FALSE, items |-> <<>>]

Request(mode, bulk, its) == [mode |-> mode, bulk |-> bulk, items |-> its]

Effect(pl, req) ==
    IF req.mode = "positions" THEN RemoveSpecificOccurrences(pl, req.items)
    ELSE RemoveAllOccurrences(pl, req.items)

(***************************************************************************)
(* The flows.                                                              *)
(***************************************************************************)
scanVars == <<items, duplicates, gi, escolha, choices, matches, confirm>>

removerVars == <<ck, fi, removed_count, slept>>

\* the state of the main menu: the option, the playlist selected last, the
\* line read last by input()
menuVars == <<opcao, playlist_escolhida, input_line>>

\* the arguments and the result of a call of _chunked_list on its own
chunkVars == <<chunk_lst, chunk_n, chunk_out>>

\* what a flow function does not touch: its arguments and the caller's state
argVars == <<flow, artist_name, track_name, year_cutoff, menuVars, chunkVars>>

\* remove_artist_from_playlist, whole: the scan, then one request for all
\* the matches, any exception of which is printed
remove_artist_from_playlist ==
    /\ pc = "artist"
    /\ \E ps \in PageSizes(remote) :
         LET tracks_to_remove == ScanArtist(Pages(remote, ps), artist_name)
         IN  /\ to_remove' = tracks_to_remove
             /\ IF tracks_to_remove # <<>>
                THEN \E r \in Responses :
                       /\ CanRespond(r)
                       /\ lastReq' = Request("uris", TRUE, tracks_to_remove)
                       /\ lastResp' = r
                       /\ nreq' = nreq + 1
                       /\ faults' = IF r = OkResponse THEN faults ELSE faults + 1
                       /\ remote' = IF r = OkResponse THEN Effect(remote, lastReq') ELSE remote
                ELSE UNCHANGED <<lastReq, lastResp, nreq, faults, remote>>
    /\ pc' = "returned"
    /\ UNCHANGED <<argVars, scanVars, removerVars>>

\* remove_music_from_playlist, whole
remove_music_from_playlist ==
    /\ pc = "music"
    /\ \E ps \in PageSizes(remote) :
         LET tracks_to_remove == ScanMusic(Pages(remote, ps), track_name)
         IN  /\ to_remove' = tracks_to_remove
             /\ IF tracks_to_remove # <<>>
                THEN \E r \in Responses :
                       /\ CanRespond(r)
                       /\ lastReq' = Request("uris", TRUE, DictFromKeys(tracks_to_remove))
                       /\ lastResp' = r
                       /\ nreq' = nreq + 1
                       /\ faults' = IF r = OkResponse THEN faults ELSE faults + 1
                       /\ remote' = IF r = OkResponse THEN Effect(remote, lastReq') ELSE remote
                ELSE UNCHANGED <<lastReq, lastResp, nreq, faults, remote>>
    /\ pc' = "returned"
    /\ UNCHANGED <<argVars, scanVars, removerVars>>

\* remove_duplicates_from_playlist up to the first prompt: scan, grouping,
\* filter of the groups of more than one occurrence
DupScan ==
    /\ pc = "dup_scan"
    /\ \E ps \in PageSizes(remote) :
         /\ items' = ScanDuplicates(Pages(remote, ps))
         /\ duplicates' = Duplicates(items')
    /\ IF duplicates' = <<>>
       THEN pc' = "returned" /\ gi' = gi
       ELSE pc' = "dup_prompt" /\ gi' = 1
    /\ UNCHANGED <<argVars, remote, escolha, choices, matches, confirm, to_remove,
                   removerVars, lastReq, lastResp, nreq, faults>>

\* what the user may type at the prompt of a group of n occurrences
PromptInputs(n) ==
    {Dec(k) : k \in 0..(n + 1)} \cup {<<120>>, <<32, 49, 32>>, <<45, 49>>}

\* DupPrompt with selected = occurrences[0] whatever the answer
DupPrompt_First ==
    /\ pc = "dup_prompt"
    /\ LET occurrences == duplicates[gi].occurrences
       IN  \E typed \in PromptInputs(Len(occurrences)) :
             /\ escolha' = Strip(typed)
             /\ LET escolha_int == PyInt(escolha').val
                    chosen == IsDigitStr(escolha')
                              /\ escolha_int >= 1 /\ escolha_int <= Len(occurrences)
                    skipped == IsDigitStr(escolha') /\ escolha_int = 0
                IN  /\ to_remove' =
                          IF chosen
                          THEN Append(to_remove,
                                  [uri       |-> occurrences[1].uri,
                                   positions |-> <<occurrences[1].position>>])
                          ELSE to_remove
                    /\ choices' = IF chosen \/ skipped
                                  THEN Append(choices, escolha_int) ELSE choices
                    /\ IF ~(chosen \/ skipped)
                       THEN UNCHANGED <<pc, gi, ck>>
                       ELSE IF gi < Len(duplicates)
                       THEN gi' = gi + 1 /\ UNCHANGED <<pc, ck>>
                       ELSE /\ gi' = gi
                            /\ IF to_remove' = <<>>
                               THEN pc' = "returned" /\ ck' = ck
                               ELSE pc' = "bulk" /\ ck' = 1
    /\ UNCHANGED <<argVars, remote, items, duplicates, matches, confirm,
                   fi, removed_count, slept, lastReq, lastResp, nreq, faults>>

\* one answer to the prompt of group gi
DupPrompt ==
    /\ pc = "dup_prompt"
    /\ LET occurrences == duplicates[gi].occurrences
       IN  \E typed \in PromptInputs(Len(occurrences)) :
             /\ escolha' = Strip(typed)
             /\ LET escolha_int == PyInt(escolha').val
                    chosen == IsDigitStr(escolha')
                              /\ escolha_int >= 1 /\ escolha_int <= Len(occurrences)
                    skipped == IsDigitStr(escolha') /\ escolha_int = 0
                IN  /\ to_remove' =
                          IF chosen
                          THEN Append(to_remove,
                                  [uri       |-> occurrences[escolha_int].uri,
                                   positions |-> <<occurrences[escolha_int].position>>])
                          ELSE to_remove
                    /\ choices' = IF chosen \/ skipped
                                  THEN Append(choices, escolha_int) ELSE choices
                    /\ IF ~(chosen \/ skipped)
                       THEN UNCHANGED <<pc, gi, ck>>
                       ELSE IF gi < Len(duplicates)
                       THEN gi' = gi + 1 /\ UNCHANGED <<pc, ck>>
                       ELSE /\ gi' = gi
                            /\ IF to_remove' = <<>>
                               THEN pc' = "returned" /\ ck' = ck
                               ELSE pc' = "bulk" /\ ck' = 1
    /\ UNCHANGED <<argVars, remote, items, duplicates, matches, confirm,
                   fi, removed_count, slept, lastReq, lastResp, nreq, faults>>

\* (variant) a scan that asks for the confirmation even with no match
YearScan_AlwaysAsk ==
    /\ pc = "year_scan"
    /\ \E ps \in PageSizes(remote) :
         matches' = ScanYear(Pages(remote, ps), year_cutoff)
    /\ pc' = "year_confirm"
    /\ UNCHANGED <<argVars, remote, items, duplicates, gi, escolha, choices, confirm,
                   to_remove, removerVars, lastReq, lastResp, nreq, faults>>

\* remove_tracks_before_year_from_playlist up to the confirmation prompt
YearScan ==
    /\ pc = "year_scan"
    /\ \E ps \in PageSizes(remote) :
         matches' = ScanYear(Pages(remote, ps), year_cutoff)
    /\ pc' = IF matches' = <<>> THEN "returned" ELSE "year_confirm"
    /\ UNCHANGED <<argVars, remote, items, duplicates, gi, escolha, choices, confirm,
                   to_remove, removerVars, lastReq, lastResp, nreq, faults>>

\* answers to "(s/n)": "s", " S ", "n", ""
ConfirmInputs == {<<115>>, <<32, 83, 32>>, <<110>>, <<>>}

\* (variant) a confirmation prompt whose answer is not looked at
YearConfirm_Always ==
    /\ pc = "year_confirm"
    /\ \E typed \in ConfirmInputs :
         /\ confirm' = Lower(Strip(typed))
         /\ to_remove' = UniqueUris(matches)
         /\ IF to_remove' = <<>>
            THEN pc' = "returned" /\ ck' = ck
            ELSE pc' = "bulk" /\ ck' = 1
    /\ UNCHANGED <<argVars, remote, items, duplicates, gi, escolha, choices, matches,
                   fi, removed_count, slept, lastReq, lastResp, nreq, faults>>

\* the confirmation prompt and the construction of uris_to_remove
YearConfirm ==
    /\ pc = "year_confirm"
    /\ \E typed \in ConfirmInputs :
         /\ confirm' = Lower(Strip(typed))
         /\ IF confirm' # <<115>>
            THEN pc' = "returned" /\ UNCHANGED <<to_remove, ck>>
            ELSE /\ to_remove' = UniqueUris(matches)
                 /\ IF to_remove' = <<>>
                    THEN pc' = "returned" /\ ck' = ck
                    ELSE pc' = "bulk" /\ ck' = 1
    /\ UNCHANGED <<argVars, remote, items, duplicates, gi, escolha, choices, matches,
                   fi, removed_count, slept, lastReq, lastResp, nreq, faults>>

(***************************************************************************)
(* The batch removal loops of the duplicate flow and of the year flow.     *)
(***************************************************************************)
BatchSize == IF flow = "dups" THEN BATCH_SIZE_POSITIONS ELSE BATCH_SIZE_URIS

Mode == IF flow = "dups" THEN "positions" ELSE "uris"

Chunks == _chunked_list(to_remove, BatchSize)

\* (variant) the count raised when the call is made, whatever its answer
Counted_Always(r, k) == removed_count + k

\* removed_count after a call on k items answered r: removed_count += k
\* is reached only when the call raised nothing
Counted(r, k) == IF r = OkResponse THEN removed_count + k ELSE removed_count

\* the for loop takes the next chunk, or the function prints the count and returns
AfterChunk ==
    IF ck < Len(Chunks)
    THEN pc' = "bulk" /\ ck' = ck + 1
    ELSE pc' = "returned" /\ ck' = ck

\* BulkCall with break in place of continue after the sleep
BulkCall_BreakOnRateLimit(r) ==
    LET chunk == Chunks[ck]
    IN  /\ lastReq' = Request(Mode, TRUE, chunk)
        /\ lastResp' = r
        /\ nreq' = nreq + 1
        /\ faults' = IF r = OkResponse THEN faults ELSE faults + 1
        /\ IF r = OkResponse
           THEN /\ removed_count' = removed_count + Len(chunk)
                /\ remote' = Effect(remote, lastReq')
                /\ AfterChunk
                /\ UNCHANGED <<fi, slept>>
           ELSE IF IsRateLimit(r)
           THEN LET retry_after == PyInt(RetryAfterText(r))
                IN  IF retry_after.ok
                    THEN /\ slept' = Append(slept, retry_after.val)
                         /\ AfterChunk
                         /\ UNCHANGED <<fi, removed_count, remote>>
                    ELSE /\ pc' = "crashed"
                         /\ UNCHANGED <<ck, fi, removed_count, remote, slept>>
           ELSE /\ pc' = "item"
                /\ fi' = 1
                /\ UNCHANGED <<ck, removed_count, remote, slept>>

\* one pass of the while True loop: the bulk call for the chunk and the
\* handling of its outcome, up to the next call
BulkCall(r) ==
    LET chunk == Chunks[ck]
    IN  /\ lastReq' = Request(Mode, TRUE, chunk)
        /\ lastResp' = r
        /\ nreq' = nreq + 1
        /\ faults' = IF r = OkResponse THEN faults ELSE faults + 1
        /\ removed_count' = Counted(r, Len(chunk))
        /\ IF r = OkResponse
           THEN /\ remote' = Effect(remote, lastReq')
                /\ AfterChunk
                /\ UNCHANGED <<fi, slept>>
           ELSE IF IsRateLimit(r)
           THEN LET retry_after == PyInt(RetryAfterText(r))
                IN  IF retry_after.ok
                    THEN /\ slept' = Append(slept, retry_after.val)
                         /\ UNCHANGED <<pc, ck, fi, remote>>
                    ELSE /\ pc' = "crashed"
                         /\ UNCHANGED <<ck, fi, remote, slept>>
           ELSE /\ pc' = "item" /\ fi' = 1
                /\ UNCHANGED <<ck, remote, slept>>

\* ItemCall without the inner try: a failing item ends the chunk's fallback
ItemCall_AbortOnFailure(r) ==
    LET chunk == Chunks[ck]
    IN  /\ lastReq' = Request(Mode, FALSE, <<chunk[fi]>>)
        /\ lastResp' = r
        /\ nreq' = nreq + 1
        /\ faults' = IF r = OkResponse THEN faults ELSE faults + 1
        /\ removed_count' = IF r = OkResponse THEN removed_count + 1 ELSE removed_count
        /\ remote' = IF r = OkResponse THEN Effect(remote, lastReq') ELSE remote
        /\ IF fi < Len(chunk) /\ r = OkResponse
           THEN fi' = fi + 1 /\ UNCHANGED <<pc, ck>>
           ELSE fi' = fi /\ AfterChunk
        /\ slept' = slept

\* one pass of the fallback loop: the call for item fi of the chunk alone
ItemCall(r) ==
    LET chunk == Chunks[ck]
    IN  /\ lastReq' = Request(Mode, FALSE, <<chunk[fi]>>)
        /\ lastResp' = r
        /\ nreq' = nreq + 1
        /\ faults' = IF r = OkResponse THEN faults ELSE faults + 1
        /\ removed_count' = Counted(r, 1)
        /\ remote' = IF r = OkResponse THEN Effect(remote, lastReq') ELSE remote
        /\ IF fi < Len(chunk)
           THEN fi' = fi + 1 /\ UNCHANGED <<pc, ck>>
           ELSE fi' = fi /\ AfterChunk
        /\ slept' = slept

DupBulk ==
    /\ pc = "bulk" /\ flow = "dups"
    /\ \E r \in Responses : CanRespond(r) /\ BulkCall(r)
    /\ UNCHANGED <<argVars, scanVars, to_remove>>

DupItemCall ==
    /\ pc = "item" /\ flow = "dups"
    /\ \E r \in Responses : CanRespond(r) /\ ItemCall(r)
    /\ UNCHANGED <<argVars, scanVars, to_remove>>

YearBulk ==
    /\ pc = "bulk" /\ flow = "year"
    /\ \E r \in Responses : CanRespond(r) /\ BulkCall(r)
    /\ UNCHANGED <<argVars, scanVars, to_remove>>

YearItemCall ==
    /\ pc = "item" /\ flow = "year"
    /\ \E r \in Responses : CanRespond(r) /\ ItemCall(r)
    /\ UNCHANGED <<argVars, scanVars, to_remove>>

(***************************************************************************)
(* Specifications.                                                         *)
(***************************************************************************)
\* "a", "B"
ArtistNames == {<<97>>, <<66>>}

\* "so", "S"
TrackNames == {<<115, 111>>, <<83>>}

Cutoffs == {2010, 2011}

EntryPc(f) ==
    CASE f = "artist" -> "artist"
      [] f = "music"  -> "music"
      [] f = "dups"   -> "dup_scan"
      [] f = "year"   -> "year_scan"

\* the locals of a flow function when it is entered
InitLocals ==
    /\ items = <<>> /\ duplicates = <<>> /\ gi = 0
    /\ escolha = <<>> /\ choices = <<>> /\ matches = <<>> /\ confirm = <<>>
    /\ to_remove = <<>> /\ ck = 0 /\ fi = 0 /\ removed_count = 0
    /\ lastReq = NoRequest /\ lastResp = NoResponse /\ nreq = 0
    /\ slept = <<>> /\ faults = 0

(***************************************************************************)
(* The main menu (__main__).                                               *)
(***************************************************************************)
\* the playlists of the user: the one playlist of the model
playlists == <<"remote">>

\* playlist_escolhida before its first assignment (reading it: NameError)
Unbound == "NameError"

\* the menu option that calls a flow function
OptionOf(f) ==
    CASE f = "artist" -> 1
      [] f = "music"  -> 2
      [] f = "dups"   -> 3
      [] f = "year"   -> 4

\* no call of _chunked_list on its own is under way
ChunkIdle == chunk_lst = <<>> /\ chunk_n = 1 /\ chunk_out = <<>>

\* the caller's state when a flow function runs: a playlist was selected
InitCaller ==
    /\ opcao = OptionOf(flow)
    /\ playlist_escolhida = playlists[1]
    /\ input_line = <<>>
    /\ ChunkIdle

\* the locals of a flow function are gone when it has returned
ResetLocals ==
    /\ items' = <<>> /\ duplicates' = <<>> /\ gi' = 0
    /\ escolha' = <<>> /\ choices' = <<>> /\ matches' = <<>> /\ confirm' = <<>>
    /\ to_remove' = <<>> /\ ck' = 0 /\ fi' = 0 /\ removed_count' = 0
    /\ lastReq' = NoRequest /\ lastResp' = NoResponse /\ nreq' = 0
    /\ slept' = <<>> /\ faults' = 0

localVars == <<scanVars, removerVars, to_remove, lastReq, lastResp, nreq, faults>>

\* lines typed at the menu: "1".."5", "7", "0", "x", ""
MenuInputs == {Dec(k) : k \in 1..5} \cup {<<55>>, <<48>>, <<120>>, <<>>}

\* the menu prompt and the dispatch of match opcao, up to the next input()
MenuChoice ==
    /\ pc = "menu"
    /\ \E text \in MenuInputs :
         LET parsed == PyInt(text)
         IN  /\ input_line' = text
             /\ IF ~parsed.ok
                THEN pc' = "exited" /\ opcao' = opcao
                ELSE /\ opcao' = parsed.val
                     /\ pc' = IF parsed.val \in 1..4 THEN "select"
                              ELSE IF parsed.val = 5 THEN "exited"
                              ELSE "menu"
    /\ UNCHANGED <<flow, remote, artist_name, track_name, year_cutoff,
                   playlist_escolhida, chunkVars, localVars>>

\* lines typed at the playlist prompt: "0", "1", "2", "x"
SelectInputs == {<<48>>, <<49>>, <<50>>, <<120>>}

\* where the code goes once the selection loop of an option is left with a
\* playlist bound
AfterSelect(o) ==
    CASE o = 1 -> "ask_artist"
      [] o = 2 -> "ask_listar"
      [] o = 3 -> EntryPc("dups")
      [] o = 4 -> "ask_ano"

\* one input at "Digite o numero da playlist desejada ou 0 para voltar", with
\* what follows it up to the next input() or call: option 1 handles 0 and the
\* selection inside the loop; options 2, 3 and 4 leave the loop and go on
\* unless reading playlist_escolhida raises NameError
SelectPlaylist ==
    /\ pc = "select"
    /\ \E text \in SelectInputs :
         LET parsed == PyInt(text)
         IN  /\ input_line' = text
             /\ IF ~parsed.ok
                THEN UNCHANGED <<pc, playlist_escolhida, flow>>
                ELSE IF parsed.val = 0
                THEN /\ playlist_escolhida' = playlist_escolhida
                     /\ IF opcao = 1 \/ playlist_escolhida = Unbound
                        THEN pc' = "menu" /\ flow' = flow
                        ELSE /\ pc' = AfterSelect(opcao)
                             /\ flow' = IF opcao = 3 THEN "dups" ELSE flow
                ELSE IF parsed.val \in 1..Len(playlists)
                THEN /\ playlist_escolhida' = playlists[parsed.val]
                     /\ pc' = AfterSelect(opcao)
                     /\ flow' = IF opcao = 3 THEN "dups" ELSE flow
                ELSE UNCHANGED <<pc, playlist_escolhida, flow>>
    /\ UNCHANGED <<remote, artist_name, track_name, year_cutoff, opcao,
                   chunkVars, localVars>>

\* "Nome do artista para remover", then the call of the artist flow
ArtistPrompt ==
    /\ pc = "ask_artist"
    /\ \E text \in ArtistNames :
         /\ input_line' = text
         /\ artist_name' = text
    /\ flow' = "artist"
    /\ pc' = EntryPc("artist")
    /\ UNCHANGED <<remote, track_name, year_cutoff, opcao, playlist_escolhida,
                   chunkVars, localVars>>

\* "Deseja listar as musicas dessa playlist? (s/n)": the listing only reads
ListarPrompt ==
    /\ pc = "ask_listar"
    /\ \E text \in ConfirmInputs : input_line' = text
    /\ pc' = "ask_track"
    /\ UNCHANGED <<flow, remote, artist_name, track_name, year_cutoff, opcao,
                   playlist_escolhida, chunkVars, localVars>>

\* "Nome da musica para remover", then the call of the track-name flow
TrackPrompt ==
    /\ pc = "ask_track"
    /\ \E text \in TrackNames :
         /\ input_line' = text
         /\ track_name' = text
    /\ flow' = "music"
    /\ pc' = EntryPc("music")
    /\ UNCHANGED <<remote, artist_name, year_cutoff, opcao, playlist_escolhida,
                   chunkVars, localVars>>

\* lines typed at the year prompt: the cutoffs, " 2010 ", "x"
YearInputs == {Dec(y) : y \in Cutoffs} \cup {<<32, 50, 48, 49, 48, 32>>, <<120>>}

\* "Digite o ano", asked again until int() accepts the line, then the call
\* of the year flow
YearPrompt ==
    /\ pc = "ask_ano"
    /\ \E text \in YearInputs :
         LET ano == PyInt(Strip(text))
         IN  /\ input_line' = text
             /\ IF ano.ok
                THEN /\ year_cutoff' = ano.val
                     /\ flow' = "year"
                     /\ pc' = EntryPc("year")
                ELSE UNCHANGED <<year_cutoff, flow, pc>>
    /\ UNCHANGED <<remote, artist_name, track_name, opcao, playlist_escolhida,
                   chunkVars, localVars>>

\* a flow function has returned: back to the top of the menu loop
Return ==
    /\ pc = "returned"
    /\ flow \in {"artist", "music", "dups", "year"}
    /\ pc' = "menu"
    /\ flow' = "none"
    /\ ResetLocals
    /\ UNCHANGED <<remote, artist_name, track_name, year_cutoff, menuVars, chunkVars>>

\* a flow function is entered with its arguments, on some playlist
InitFlow ==
    /\ flow \in {"artist", "music", "dups", "year"}
    /\ pc = EntryPc(flow)
    /\ remote \in Playlists(FlowCatalog, MaxSlots) \cup {LongPlaylist}
    /\ artist_name \in IF flow = "artist" THEN ArtistNames ELSE {<<>>}
    /\ track_name \in IF flow = "music" THEN TrackNames ELSE {<<>>}
    /\ year_cutoff \in IF flow = "year" THEN Cutoffs ELSE {0}
    /\ InitLocals
    /\ InitCaller

NextFlow ==
    \/ remove_artist_from_playlist
    \/ remove_music_from_playlist
    \/ DupScan
    \/ DupPrompt
    \/ DupBulk
    \/ DupItemCall
    \/ YearScan
    \/ YearConfirm
    \/ YearBulk
    \/ YearItemCall

SpecFlow == InitFlow /\ [][NextFlow]_vars

\* the duplicate flow's scan and grouping alone, on richer playlists
InitDupScan ==
    /\ flow = "dups"
    /\ pc = "dup_scan"
    /\ remote \in Playlists(ScanCatalog, MaxScanSlots)
    /\ artist_name = <<>> /\ track_name = <<>> /\ year_cutoff = 0
    /\ InitLocals
    /\ InitCaller

NextDupScan == DupScan

SpecDupScan == InitDupScan /\ [][NextDupScan]_vars

\* the year flow's scan alone, on playlists rich in release dates
InitYearScan ==
    /\ flow = "year"
    /\ pc = "year_scan"
    /\ remote \in Playlists(DateCatalog, MaxScanSlots)
    /\ artist_name = <<>> /\ track_name = <<>>
    /\ year_cutoff \in Cutoffs
    /\ InitLocals
    /\ InitCaller

NextYearScan == YearScan

SpecYearScan == InitYearScan /\ [][NextYearScan]_vars

\* the artist flow and the track-name flow alone, on richer playlists and
\* with names that differ from the playlist's in case and in spaces:
\* "a", "B", " a" and "so", "S", "SO "
ScanArtistNames == ArtistNames \cup {<<32, 97>>}

ScanTrackNames == TrackNames \cup {<<83, 79, 32>>}

InitNameScan ==
    /\ flow \in {"artist", "music"}
    /\ pc = EntryPc(flow)
    /\ remote \in Playlists(ScanCatalog, MaxNameSlots)
    /\ artist_name \in IF flow = "artist" THEN ScanArtistNames ELSE {<<>>}
    /\ track_name \in IF flow = "music" THEN ScanTrackNames ELSE {<<>>}
    /\ year_cutoff = 0
    /\ InitLocals
    /\ InitCaller

NextNameScan ==
    \/ remove_artist_from_playlist
    \/ remove_music_from_playlist

SpecNameScan == InitNameScan /\ [][NextNameScan]_vars

\* _chunked_list on its own: any list of candidates, any chunk size n >= 1
ChunkItems == {"u1", "u2"}

InitChunk ==
    /\ pc = "chunk"
    /\ flow = "none"
    /\ remote = <<>>
    /\ artist_name = <<>> /\ track_name = <<>> /\ year_cutoff = 0
    /\ opcao = 0 /\ playlist_escolhida = Unbound /\ input_line = <<>>
    /\ InitLocals
    /\ chunk_lst \in SeqsUpTo(ChunkItems, MaxListLen)
    /\ chunk_n \in 1..MaxChunkSize
    /\ chunk_out = <<>>

\* list(_chunked_list(lst, n)): the generator run to its end
ChunkedList ==
    /\ pc = "chunk"
    /\ chunk_out' = _chunked_list(chunk_lst, chunk_n)
    /\ pc' = "chunked"
    /\ UNCHANGED <<flow, remote, artist_name, track_name, year_cutoff, menuVars,
                   chunk_lst, chunk_n, localVars>>

NextChunk == ChunkedList

SpecChunk == InitChunk /\ [][NextChunk]_vars

\* the program from the first display of the menu, the playlists fetched
Init ==
    /\ pc = "menu"
    /\ flow = "none"
    /\ remote \in Playlists(FlowCatalog, MaxMenuSlots)
    /\ artist_name = <<>> /\ track_name = <<>> /\ year_cutoff = 0
    /\ opcao = 0 /\ playlist_escolhida = Unbound /\ input_line = <<>>
    /\ InitLocals
    /\ ChunkIdle

Next ==
    \/ MenuChoice
    \/ SelectPlaylist
    \/ ArtistPrompt
    \/ ListarPrompt
    \/ TrackPrompt
    \/ YearPrompt
    \/ Return
    \/ remove_artist_from_playlist
    \/ remove_music_from_playlist
    \/ DupScan
    \/ DupPrompt
    \/ DupBulk
    \/ DupItemCall
    \/ YearScan
    \/ YearConfirm
    \/ YearBulk
    \/ YearItemCall

Spec == Init /\ [][Next]_vars


(***************************************************************************)
(* Properties.                                                             *)
(***************************************************************************)
IsFailure(r) == r.kind \in {"SpotifyException", "Exception"}

\* C1: fallback isolation.  In the duplicate flow and the year flow, a bulk
\* call that fails with an error other than a rate limit is followed by the
\* individual submission of item 1 of the chunk; every step of the fallback
\* submits exactly the item at the fallback index, adds 1 to removed_count
\* iff that submission succeeds, and moves to the next item of the chunk
\* whatever the outcome; after the last item the loop goes on with the next
\* chunk, or returns when there is none.
C1_FallbackIsolation ==
    [][ /\ (pc = "bulk" /\ nreq' = nreq + 1 /\ IsFailure(lastResp') /\ ~IsRateLimit(lastResp'))
             => (pc' = "item" /\ fi' = 1 /\ ck' = ck /\ removed_count' = removed_count)
        /\ (pc = "item")
             => /\ nreq' = nreq + 1
                /\ lastReq' = Request(Mode, FALSE, <<Chunks[ck][fi]>>)
                /\ removed_count' = removed_count + (IF lastResp' = OkResponse THEN 1 ELSE 0)
                /\ to_remove' = to_remove
                /\ IF fi < Len(Chunks[ck])
                   THEN pc' = "item" /\ fi' = fi + 1 /\ ck' = ck
                   ELSE IF ck < Len(Chunks)
                   THEN pc' = "bulk" /\ ck' = ck + 1
                   ELSE pc' = "returned"
      ]_vars

\* the year flow has returned after a fallback over a chunk of 3 in which
\* items 1 and 3 were removed and item 2 failed
C1_Witness ==
    /\ flow = "year" /\ pc = "returned"
    /\ Len(to_remove) = 3 /\ removed_count = 2 /\ faults = 2
    /\ lastReq = Request("uris", FALSE, <<to_remove[3]>>)
    /\ lastResp = OkResponse
    /\ \E i \in 1..Len(remote) :
          remote[i].track # NullTrack /\ remote[i].track.uri = to_remove[2]
    /\ \A i \in 1..Len(remote) :
          remote[i].track # NullTrack => remote[i].track.uri # to_remove[1]

\* C2: rate-limit retry.  Every bulk call carries the current chunk; a
\* rate-limited bulk call leaves removed_count, the chunk and the fallback
\* index as they were and does not start the per-item fallback; a request
\* that follows a rate-limited bulk call is that same bulk request again; a
\* successful bulk call adds the chunk's size to removed_count and leaves
\* the chunk for good.
C2_RateLimitRetry ==
    [][ /\ (pc = "bulk" /\ nreq' = nreq + 1)
             => /\ lastReq' = Request(Mode, TRUE, Chunks[ck])
                /\ IsRateLimit(lastResp')
                     => /\ removed_count' = removed_count
                        /\ ck' = ck /\ fi' = fi
                        /\ pc' \in {"bulk", "crashed"}
                /\ (lastResp' = OkResponse)
                     => /\ removed_count' = removed_count + Len(Chunks[ck])
                        /\ IF ck < Len(Chunks)
                           THEN pc' = "bulk" /\ ck' = ck + 1
                           ELSE pc' = "returned"
        /\ (lastReq.bulk /\ IsRateLimit(lastResp) /\ nreq' = nreq + 1
                /\ flow \in {"dups", "year"})
             => lastReq' = lastReq
      ]_vars

\* a chunk went through after exactly two rate-limited attempts
C2_Witness ==
    /\ flow \in {"dups", "year"}
    /\ Len(slept) = 2 /\ faults = 2 /\ nreq = 3
    /\ lastReq.bulk /\ lastResp = OkResponse
    /\ removed_count = Len(lastReq.items)

\* C3: backoff duration.  A rate-limited bulk call is followed by a sleep of
\* the Retry-After value when it is present and parses, of 5 seconds when it
\* is absent or does not parse, and then by the retry of the chunk.
C3_BackoffDuration ==
    [][ (pc = "bulk" /\ nreq' = nreq + 1 /\ IsRateLimit(lastResp'))
          => /\ pc' = "bulk" /\ ck' = ck
             /\ slept' = Append(slept,
                   IF "Retry_After" \in DOMAIN lastResp'.headers
                      /\ PyInt(lastResp'.headers.Retry_After).ok
                   THEN PyInt(lastResp'.headers.Retry_After).val
                   ELSE 5)
      ]_vars

\* the candidate's positions designate, in the playlist as it is now, the
\* slots they designated when the playlist was scanned
StillDesignates(c) ==
    LET live == SelectSeq(remote, IsTrackSlot)
    IN  \A q \in 1..Len(c.positions) :
           /\ c.positions[q] + 1 <= Len(live)
           /\ live[c.positions[q] + 1].added_at = items[c.positions[q] + 1].added_at

\* C4: snapshot-position validity.  Whenever the duplicate flow is about to
\* send a by-position request, the positions it carries still designate the
\* slots they designated at scan time.
C4_SnapshotPositions ==
    (flow = "dups" /\ pc \in {"bulk", "item"})
      => IF pc = "bulk"
         THEN \A i \in 1..Len(Chunks[ck]) : StillDesignates(Chunks[ck][i])
         ELSE StillDesignates(Chunks[ck][fi])

\* C5: bounded request size.  No bulk request carries more than 100
\* identities (by identity) or more than 50 items (by position).
C5_BoundedRequest ==
    /\ lastReq.mode = "uris" => Len(lastReq.items) <= BATCH_SIZE_URIS
    /\ lastReq.mode = "positions" => Len(lastReq.items) <= BATCH_SIZE_POSITIONS

\* C6: identity de-duplication.  A by-identity request carries no identity
\* twice.
C6_IdentityOnce ==
    lastReq.mode = "uris"
      => \A i, j \in 1..Len(lastReq.items) :
            lastReq.items[i] = lastReq.items[j] => i = j

\* C7: pagination completeness.  After the duplicate flow's scan, items are
\* the slots with a track, in playlist order, numbered 0, 1, 2, ...
C7_PaginationComplete ==
    (flow = "dups" /\ pc # "dup_scan")
      => LET live == SelectSeq(remote, IsTrackSlot)
         IN  /\ Len(items) = Len(live)
             /\ \A j \in 1..Len(items) :
                   /\ items[j].position = j - 1
                   /\ items[j].added_at = live[j].added_at
                   /\ items[j].uri = live[j].track.uri
                   /\ items[j].name = live[j].track.name

\* a four-slot playlist with null slots before both of its tracks was scanned
C7_Witness ==
    /\ flow = "dups" /\ pc # "dup_scan"
    /\ Len(remote) = 4
    /\ remote[1].track = NullTrack /\ remote[3].track = NullTrack
    /\ Len(items) = 2
    /\ items[2].position = 1 /\ items[2].added_at = 4

\* the candidates that the answers chs to the first Len(chs) groups select
RECURSIVE CandidatesOf(_)
CandidatesOf(chs) ==
    IF chs = <<>> THEN <<>>
    ELSE LET g    == Len(chs)
             rest == CandidatesOf(SubSeq(chs, 1, g - 1))
         IN  IF chs[g] = 0 THEN rest
             ELSE Append(rest,
                     [uri       |-> duplicates[g].occurrences[chs[g]].uri,
                      positions |-> <<duplicates[g].occurrences[chs[g]].position>>])

\* C8: candidate construction of the duplicate flow.  Each group is answered
\* with 0 or the number of one of its occurrences; the candidate list holds,
\* in group order, one candidate {uri, positions: [p]} per group answered
\* with a non-zero number, p being the scan position of that occurrence, and
\* nothing else; the removal starts only when every group is answered.
C8_Candidates ==
    (flow = "dups" /\ pc # "dup_scan")
      => /\ Len(choices) <= Len(duplicates)
         /\ \A g \in 1..Len(choices) :
               choices[g] \in 0..Len(duplicates[g].occurrences)
         /\ to_remove = CandidatesOf(choices)
         /\ \A i \in 1..Len(to_remove) :
               /\ Len(to_remove[i].positions) = 1
               /\ items[to_remove[i].positions[1] + 1].uri = to_remove[i].uri
         /\ pc \in {"bulk", "item", "crashed"} => Len(choices) = Len(duplicates)
         /\ pc = "dup_prompt" => Len(choices) = gi - 1

\* two groups, the first skipped, occurrence 2 (position 3) of the second
\* chosen: the removal starts with the single candidate {uri, positions: [3]}
C8_Witness ==
    /\ flow = "dups" /\ pc = "bulk" /\ nreq = 0
    /\ Len(duplicates) = 2
    /\ choices = <<0, 2>>
    /\ to_remove = <<[uri |-> 1, positions |-> <<3>>]>>

\* the key of the claim as written: lowercased name || comma-joined
\* lowercased artists
LoweredKey(track) ==
    Lower(track.name) \o <<124, 124>> \o Lower(Join(<<44>>, track.artists))

\* the key with the name and every artist trimmed first
TrimmedKey(track) ==
    Lower(Strip(track.name)) \o <<124, 124>>
       \o Lower(Join(<<44>>, [i \in 1..Len(track.artists) |-> Strip(track.artists[i])]))

\* occurrences i and j of the scan are listed in one reported group
Together(i, j) ==
    \E g \in 1..Len(duplicates) :
       \E a, b \in 1..Len(duplicates[g].occurrences) :
          /\ duplicates[g].occurrences[a] = items[i]
          /\ duplicates[g].occurrences[b] = items[j]

\* every reported group has more than one member, lists them in scan order,
\* and no entry is listed twice
GroupsWellFormed ==
    /\ \A g \in 1..Len(duplicates) :
          /\ Len(duplicates[g].occurrences) > 1
          /\ \A a \in 1..Len(duplicates[g].occurrences) :
                \E i \in 1..Len(items) : items[i] = duplicates[g].occurrences[a]
          /\ \A a, b \in 1..Len(duplicates[g].occurrences) :
                a < b => duplicates[g].occurrences[a].position
                           < duplicates[g].occurrences[b].position
    /\ \A g, h \in 1..Len(duplicates) :
          \A a \in 1..Len(duplicates[g].occurrences) :
             \A b \in 1..Len(duplicates[h].occurrences) :
                duplicates[g].occurrences[a] = duplicates[h].occurrences[b] => g = h

\* C9 as written: two distinct entries are listed in one reported group
\* exactly when their lowercased keys are equal.
C9_GroupingLowered ==
    (flow = "dups" /\ pc # "dup_scan")
      => LET live == SelectSeq(remote, IsTrackSlot)
         IN  /\ GroupsWellFormed
             /\ \A i, j \in 1..Len(items) :
                   i # j => (Together(i, j)
                               <=> LoweredKey(live[i].track) = LoweredKey(live[j].track))

\* C9: duplicate grouping.  Two distinct entries are listed in one reported
\* group exactly when their keys, built from the trimmed and lowercased name
\* and the trimmed, comma-joined and lowercased artists in original order,
\* are equal; a reported group has more than one member, in scan order.
C9_GroupingTrimmed ==
    (flow = "dups" /\ pc # "dup_scan")
      => LET live == SelectSeq(remote, IsTrackSlot)
         IN  /\ GroupsWellFormed
             /\ \A i, j \in 1..Len(items) :
                   i # j => (Together(i, j)
                               <=> TrimmedKey(live[i].track) = TrimmedKey(live[j].track))

\* ("So", A), ("so", a), ("So", B): one group of the first two
C9_Witness ==
    /\ flow = "dups" /\ pc = "dup_prompt"
    /\ Len(remote) = 3
    /\ remote[1].track = K1 /\ remote[2].track = K2 /\ remote[3].track = K3
    /\ Len(duplicates) = 1
    /\ Len(duplicates[1].occurrences) = 2
    /\ duplicates[1].occurrences[1].position = 0
    /\ duplicates[1].occurrences[2].position = 1

\* the release date starts with four digits
FourDigitYear(d) == Len(d) >= 4 /\ \A i \in 1..4 : IsDigit(d[i])

YearValue(d) ==
    1000 * (d[1] - 48) + 100 * (d[2] - 48) + 10 * (d[3] - 48) + (d[4] - 48)

\* the matching rule of the claim as written
FourDigitMatch(slot) ==
    /\ slot.track # NullTrack
    /\ HasDate(slot.track.album)
    /\ FourDigitYear(slot.track.album.release_date)
    /\ YearValue(slot.track.album.release_date) < year_cutoff

\* the matching rule with int() over the first (at most) four characters
IntPrefixMatch(slot) ==
    /\ slot.track # NullTrack
    /\ HasDate(slot.track.album)
    /\ slot.track.album.release_date # <<>>
    /\ PyInt(Prefix(slot.track.album.release_date, 4)).ok
    /\ PyInt(Prefix(slot.track.album.release_date, 4)).val < year_cutoff

SlotUris(sl) == [i \in 1..Len(sl) |-> sl[i].track.uri]

\* C10 as written: the matches are the entries whose release date starts
\* with a four-digit year below the cutoff.
C10_YearFourDigits ==
    (flow = "year" /\ pc # "year_scan")
      => Uris(matches) = SlotUris(SelectSeq(remote, FourDigitMatch))

\* C10: year-cutoff matching.  The matches are, in playlist order, the
\* entries with a track and a non-empty release date whose first four
\* characters (all of it when shorter) are accepted by int() with a value
\* strictly below the cutoff; four digits are not required.
C10_YearIntPrefix ==
    (flow = "year" /\ pc # "year_scan")
      => /\ Uris(matches) = SlotUris(SelectSeq(remote, IntPrefixMatch))
         /\ \A i \in 1..Len(matches) :
               PyInt(Prefix(matches[i].release_date, 4)).val < year_cutoff

\* cutoff 2010 over 2008-03-01, 2010, no date, "abcd": only the first matches
C10_Witness ==
    /\ flow = "year" /\ pc = "year_confirm" /\ year_cutoff = 2010
    /\ Len(remote) = 4
    /\ remote[1].track = K1 /\ remote[2].track = K2
    /\ remote[3].track = K3 /\ remote[4].track = K4
    /\ Uris(matches) = <<1>>

\* the answer "s" of a "(s/n)" prompt
Affirmative == <<115>>

\* some entry of the playlist has the given artist / the given name
SomeArtistMatch == \E i \in 1..Len(remote) :
    IsTrackSlot(remote[i]) /\ ArtistMatch(remote[i].track, artist_name)

SomeNameMatch == \E i \in 1..Len(remote) :
    IsTrackSlot(remote[i]) /\ NameMatch(remote[i].track, track_name)

\* C11: confirmation gate.  In the year flow no step before the answer to
\* the confirmation prompt sends a request, an answer other than "s" ends
\* the flow with the playlist untouched and nothing sent, and a request is
\* sent only when the answer was "s"; in the artist flow and the track-name
\* flow the one step that scans a playlist with a match also sends the
\* removal request, with no prompt in between.
C11_ConfirmationGate == [][
    /\ pc = "year_scan" => nreq' = nreq /\ remote' = remote
    /\ pc = "year_confirm" =>
          /\ nreq' = nreq /\ remote' = remote
          /\ confirm' # Affirmative => pc' = "returned"
    /\ (flow = "year" /\ nreq' # nreq) => confirm = Affirmative
    /\ (pc = "artist" /\ SomeArtistMatch) => nreq' = nreq + 1 /\ confirm' = <<>>
    /\ (pc = "music" /\ SomeNameMatch) => nreq' = nreq + 1 /\ confirm' = <<>>
    ]_vars

\* the year flow found matches, the user answered "n", the flow is over and
\* nothing was sent
C11_Witness ==
    /\ flow = "year" /\ pc = "returned" /\ matches # <<>>
    /\ confirm = <<110>> /\ nreq = 0

\* the line typed at a prompt for a number is the number k
Typed(k) == PyInt(input_line').ok /\ PyInt(input_line').val = k

\* C12: back from playlist selection.  Whatever was done before in the
\* session, entering 0 at the playlist prompt of an option leads back to the
\* menu: no flow function is entered, no request is sent, the playlist is
\* left as it is.
C12_BackToMenu == [][
    (pc = "select" /\ Typed(0)) =>
        /\ pc' = "menu"
        /\ flow' = "none"
        /\ nreq' = nreq /\ remote' = remote
    ]_vars

\* 0 was entered at the playlist prompt of the duplicate option after an
\* earlier option had selected a playlist
C12_Witness ==
    /\ opcao = 3 /\ input_line = <<48>> /\ playlist_escolhida # Unbound
    /\ pc \in {"menu", EntryPc("dups")}
    /\ items = <<>> /\ nreq = 0

\* a request was sent in this step and answered with a rate limit whose
\* Retry-After header is absent or a number
RateLimited ==
    /\ nreq' = nreq + 1
    /\ IsRateLimit(lastResp')
    /\ PyInt(RetryAfterText(lastResp')).ok

\* C13: rate limiting never loses an item.  A removal request of any flow,
\* bulk or individual, that is answered with a rate limit is followed by a
\* sleep, and the flow stays where it was, to send the same request again:
\* the item is not passed over and the flow does not end.
C13_RateLimitNeverLoses == [][
    RateLimited =>
        /\ Len(slept') = Len(slept) + 1
        /\ pc' = pc
        /\ ck' = ck /\ fi' = fi
    ]_vars

\* the step ends the current chunk as the remover means to: the bulk call
\* succeeded, or the last item of the fallback was submitted
ChunkEnds ==
    \/ pc = "bulk" /\ lastResp' = OkResponse
    \/ pc = "item" /\ fi = Len(Chunks[ck])

\* a step of the remover, as the remover is meant to proceed
RemoverStep ==
    /\ pc' \in {"bulk", "item", "returned"}
    /\ ck' \in {ck, ck + 1}
    /\ (ck' = ck + 1) => ChunkEnds
    /\ (pc' = "returned") => (ChunkEnds /\ ck = Len(Chunks))
    /\ (pc = "bulk" /\ nreq' = nreq + 1 /\ IsRateLimit(lastResp')) => (pc' = "bulk" /\ ck' = ck)

\* C14: completion of the batch remover.  The remover leaves its loop only
\* by returning, after the last chunk; it goes through the chunks in list
\* order, one at a time, and leaves a chunk only when its bulk call has
\* succeeded or its fallback is exhausted; a rate limit on a bulk call keeps
\* the remover on that chunk.
C14_RemoverCompletes == [][(pc \in {"bulk", "item"}) => RemoverStep]_vars

\* what a step adds to the count if the count is what the claim says: the
\* size of the request when the request succeeded, nothing otherwise
Gain ==
    IF nreq' = nreq + 1 /\ lastResp' = OkResponse THEN Len(lastReq'.items) ELSE 0

\* the candidates the remover is done with: the chunks before the current
\* one and, in a fallback, the items before the current one; all of them
\* once it has returned
DoneWith ==
    CASE pc = "returned" -> Len(to_remove)
      [] pc = "item"     -> (ck - 1) * BatchSize + (fi - 1)
      [] OTHER           -> (ck - 1) * BatchSize

\* C15: removedCount accounting.  Every step of the batch remover adds to
\* removed_count the size of the chunk when a bulk call succeeded, one when
\* an individual call succeeded, and nothing otherwise; the count never
\* decreases, never exceeds the number of candidates, and never exceeds the
\* number of candidates the remover is done with (none is counted twice).
C15_Step ==
    /\ removed_count' = removed_count + Gain
    /\ removed_count' >= removed_count
    /\ removed_count' <= Len(to_remove')
    /\ removed_count' <= DoneWith'

C15_Accounting == [][(pc \in {"bulk", "item"}) => C15_Step]_vars

\* a chunk of three whose bulk call was rejected and whose fallback removed
\* two items and failed on one
C15_Witness ==
    /\ pc = "returned" /\ Len(to_remove) = 3 /\ removed_count = 2
    /\ ~lastReq.bulk /\ nreq = 4

\* C16: batch-level rejection recovery in every flow.  In each of the four
\* flows, a bulk removal call that fails with an error other than a rate
\* limit is followed by the individual submission of the items of that call,
\* starting with the first, and the program goes on.
C16_RejectionRecovery == [][
    (nreq' = nreq + 1 /\ lastReq'.bulk /\ IsFailure(lastResp') /\ ~IsRateLimit(lastResp')) =>
        (pc' = "item" /\ fi' = 1 /\ to_remove' # <<>>)
    ]_vars

\* the upper-case form of a character, and equality of texts ignoring case
Fold(c) == IF c \in 97..122 THEN c - 32 ELSE c

EqIgnoreCase(a, b) ==
    Len(a) = Len(b) /\ \A i \in 1..Len(a) : Fold(a[i]) = Fold(b[i])

\* the identities of the non-null entries of the playlist that the artist
\* flow / the track-name flow is to select
ArtistIdentities ==
    {remote[i].track.uri : i \in {j \in 1..Len(remote) :
        /\ remote[j].track # NullTrack
        /\ \E a \in 1..Len(remote[j].track.artists) :
             EqIgnoreCase(remote[j].track.artists[a], artist_name)}}

NameIdentities ==
    {remote[i].track.uri : i \in {j \in 1..Len(remote) :
        /\ remote[j].track # NullTrack
        /\ EqIgnoreCase(remote[j].track.name, track_name)}}

\* the identities of the request sent in this step, if one was sent
Submitted == IF nreq' = nreq + 1 THEN {lastReq'.items[i] : i \in 1..Len(lastReq'.items)} ELSE {}

\* C17: artist and track-name candidate selection over all pages.  However
\* the playlist is split into pages, the identities the artist flow submits
\* are exactly those of the non-null entries one of whose artist names
\* equals the given name ignoring case, and the identities the track-name
\* flow submits are exactly those of the non-null entries whose whole name
\* equals the given name ignoring case; null entries are passed over and the
\* flow returns.
C17_Step ==
    /\ pc = "artist" => Submitted = ArtistIdentities
    /\ pc = "music" => Submitted = NameIdentities
    /\ pc' = "returned"

C17_NameSelection == [][(pc \in {"artist", "music"}) => C17_Step]_vars

\* the track-name flow has sent two identities taken from a playlist of three
\* slots, one of them null
C17_Witness ==
    /\ flow = "music" /\ pc = "returned" /\ nreq = 1
    /\ Len(lastReq.items) = 2 /\ lastResp # OkResponse
    /\ Len(remote) = 3
    /\ \E i \in 1..Len(remote) : remote[i].track = NullTrack

\* no two non-null entries of the playlist have the same name and artists
NoDuplicateGroup ==
    \A i, j \in 1..Len(remote) :
        (i < j /\ remote[i].track # NullTrack /\ remote[j].track # NullTrack)
            => TrimmedKey(remote[i].track) # TrimmedKey(remote[j].track)

\* no entry of the playlist was released before the cutoff year
NoTrackBefore == \A i \in 1..Len(remote) : ~IntPrefixMatch(remote[i])

\* with this step the user has answered 0 at the prompt of every group
SkippedEveryGroup ==
    /\ Len(choices') = Len(duplicates)
    /\ \A g \in 1..Len(choices') : choices'[g] = 0

\* the step ends the flow function and sends nothing
Quiet == pc' = "returned" /\ nreq' = nreq /\ remote' = remote

\* C18: no match, no mutation.  In each flow, a scan that finds no match
\* (no artist match, no name match, no group of more than one occurrence,
\* no track before the cutoff) ends the flow function with no request sent
\* and the playlist as it was, and so does the last prompt of the duplicate
\* flow when every group was skipped; a flow function that has returned
\* gives the control back to the menu.
C18_Step ==
    /\ (pc = "artist" /\ ArtistIdentities = {}) => Quiet
    /\ (pc = "music" /\ NameIdentities = {}) => Quiet
    /\ (pc = "dup_scan" /\ NoDuplicateGroup) => Quiet
    /\ (pc = "year_scan" /\ NoTrackBefore) => Quiet
    /\ (pc = "dup_prompt" /\ SkippedEveryGroup) => Quiet
    /\ (pc = "returned") => (pc' = "menu" /\ remote' = remote)

C18_NoMatchNoMutation == [][C18_Step]_vars

\* the duplicate flow has returned after the user skipped its groups, with
\* nothing sent
C18_Witness ==
    /\ flow = "dups" /\ pc = "returned" /\ duplicates # <<>>
    /\ Len(choices) = Len(duplicates)
    /\ \A g \in 1..Len(choices) : choices[g] = 0
    /\ nreq = 0

\* the line typed at the menu is not one of the five options: it is not a
\* number, or a number outside 1..5
InvalidOption ==
    \/ ~PyInt(input_line').ok
    \/ PyInt(input_line').val \notin 1..5

\* C19: invalid top-level input.  An input at the main menu that is not one
\* of the five options, text or number, ends the process, and no flow has
\* been entered.
C19_InvalidEndsProcess == [][
    (pc = "menu" /\ InvalidOption) => (pc' = "exited" /\ flow' = "none")
    ]_vars

\* the chunks put end to end, in the order they were yielded
RECURSIVE Concat(_)
Concat(cs) == IF cs = <<>> THEN <<>> ELSE Head(cs) \o Concat(Tail(cs))

\* C20: chunk partition.  For every list and every n >= 1, the chunks that
\* _chunked_list yields, put end to end in yield order, are the list itself;
\* no chunk is empty, every chunk but the last has exactly n elements, and
\* the empty list yields no chunk.
C20_ChunkPartition ==
    pc = "chunked" =>
        /\ Concat(chunk_out) = chunk_lst
        /\ \A k \in 1..Len(chunk_out) : chunk_out[k] # <<>>
        /\ \A k \in 1..(Len(chunk_out) - 1) : Len(chunk_out[k]) = chunk_n
        /\ chunk_lst = <<>> => chunk_out = <<>>

\* a list of five in chunks of two: two full chunks and a last chunk of one
C20_Witness ==
    /\ pc = "chunked" /\ Len(chunk_lst) = 5 /\ chunk_n = 2
    /\ Len(chunk_out) = 3 /\ Len(chunk_out[3]) = 1

====
